---- MODULE Spec2Model ----
(***************************************************************************)
(* A model of codegen-agent.py: the CodingAgent control loop               *)
(* (run_interaction), the protocol codec inside _call_llm, the tool        *)
(* dispatcher _execute_tool with the AVAILABLE_TOOLS registry, and the     *)
(* guards of the tool implementations.                                     *)
(*                                                                         *)
(* Texts are sequences of tokens, so that a prefix such as "Error" or      *)
(* "Error:" is the first one or two tokens of the text.  JSON values are   *)
(* tagged records; a JSON object is a function from its keys.              *)
(***************************************************************************)
EXTENDS Integers, Sequences, FiniteSets, TLC

VARIABLES
  messages,        \* self.messages: the conversation history
  pc,              \* where the agent is: Idle, AwaitingModel, Done, Crashed
  iteration_count, \* the local counter of run_interaction
  query,           \* number of run_interaction calls started so far
  parsed_output,   \* what _call_llm returned in the latest iteration
  llm_calls,       \* model round-trips made in the current interaction
  tool_calls,      \* tool implementations invoked in the latest iteration
  finals,          \* final messages given to the user in this interaction
  call,            \* the latest _execute_tool call: arguments and result
  response         \* what the model answered in the latest round-trip

vars == <<messages, pc, iteration_count, query, parsed_output, llm_calls,
          tool_calls, finals, call, response>>

-----------------------------------------------------------------------------
(* Bounds of the model.                                                    *)

\* self.max_iterations; the source sets 25 (line 521), the model explores a
\* smaller ceiling.
max_iterations == 2

\* How many user queries (run_interaction calls) the main loop accepts.
MaxQueries == 2

-----------------------------------------------------------------------------
(* JSON values as Python sees them after json.loads.                       *)

Null == [t |-> "null"]
Str(s) == [t |-> "str", s |-> s]
Num(n) == [t |-> "num", n |-> n]
Bool(b) == [t |-> "bool", b |-> b]
List(items) == [t |-> "list", items |-> items]
Obj(m) == [t |-> "obj", m |-> m]
\* A Python str built by the program: a sequence of tokens.
Text(toks) == [t |-> "text", toks |-> toks]

EmptyObj == <<>>

\* isinstance(v, str)
IsStr(v) == v.t \in {"str", "text"}

\* Python truthiness: bool(v)
Truthy(v) ==
  CASE v.t = "null" -> FALSE
    [] v.t = "str"  -> v.s # ""
    [] v.t = "text" -> v.toks # <<>>
    [] v.t = "num"  -> v.n # 0
    [] v.t = "bool" -> v.b
    [] v.t = "list" -> v.items # <<>>
    [] v.t = "obj"  -> DOMAIN v.m # {}

\* hash(v) succeeds: a list or a dict is unhashable.
Hashable(v) == v.t \notin {"list", "obj"}

\* type(v).__name__
TypeName(v) ==
  CASE v.t = "null" -> "NoneType"
    [] v.t \in {"str", "text"} -> "str"
    [] v.t = "num"  -> "int"
    [] v.t = "bool" -> "bool"
    [] v.t = "list" -> "list"
    [] v.t = "obj"  -> "dict"

\* str(v) inside an f-string, as one token.
Fmt(v) ==
  CASE v.t = "str"  -> v.s
    [] v.t = "num"  -> ToString(v.n)
    [] v.t = "null" -> "None"
    [] v.t = "bool" -> IF v.b THEN "True" ELSE "False"
    [] OTHER -> "<" \o TypeName(v) \o ">"

\* d.get(k, default) on a dict d (a function from its keys)
PyGet(d, k, default) == IF k \in DOMAIN d THEN d[k] ELSE default

\* The set of the elements of a sequence
Range(s) == {s[i] : i \in DOMAIN s}

\* A text begins with "Error" / with "Error:"
StartsWithError(txt) == Len(txt) >= 1 /\ txt[1] = "Error"
StartsWithErrorColon(txt) == Len(txt) >= 2 /\ txt[1] = "Error" /\ txt[2] = ":"

-----------------------------------------------------------------------------
(* The tool registry AVAILABLE_TOOLS: each tool's "required" list and the  *)
(* declared type of each of its "properties", in source order.             *)

Prop(name, type) == [name |-> name, type |-> type]

AVAILABLE_TOOLS ==
  [ write_file |->
      [required |-> <<"path", "content">>,
       properties |-> <<Prop("path", "string"), Prop("content", "string")>>],
    read_file |->
      [required |-> <<"path">>,
       properties |-> <<Prop("path", "string")>>],
    run_command |->
      [required |-> <<"command">>,
       properties |-> <<Prop("command", "string")>>],
    run_in_new_terminal |->
      [required |-> <<"command">>,
       properties |-> <<Prop("command", "string")>>],
    ask_user_for_feedback |->
      [required |-> <<"question">>,
       properties |-> <<Prop("question", "string")>>],
    append_file |->
      [required |-> <<"path", "content">>,
       properties |-> <<Prop("path", "string"), Prop("content", "string")>>],
    list_files |->
      [required |-> <<>>,
       properties |-> <<Prop("directory", "string")>>],
    search_in_file |->
      [required |-> <<"path", "query">>,
       properties |-> <<Prop("path", "string"), Prop("query", "string")>>],
    delete_file |->
      [required |-> <<"path">>,
       properties |-> <<Prop("path", "string")>>],
    create_directory |->
      [required |-> <<"directory">>,
       properties |-> <<Prop("directory", "string")>>],
    delete_directory |->
      [required |-> <<"directory">>,
       properties |-> <<Prop("directory", "string")>>] ]

ToolNames == DOMAIN AVAILABLE_TOOLS

-----------------------------------------------------------------------------
(* The tool implementations.  Each takes the params value it is handed and *)
(* the environment's answer env: env.io is the exception the operating     *)
(* system raises inside the tool, or "ok"; env.big says the tool's result  *)
(* is longer than max_tool_output_length; env.darwin is the platform.      *)

\* What a call gives: a returned text, or a raised exception with its text.
Returned(txt) == [raised |-> FALSE, text |-> txt]
Raised(txt) == [raised |-> TRUE, text |-> txt]

\* The token standing for str(e) of the exception the environment raises.
Cause(env) == "<" \o env.io \o ">"

\* A token standing for more than max_tool_output_length characters.
BigToken == "<more than 5000 characters>"

\* params.get on something that is no dict raises AttributeError.
NoGet(params) ==
  Raised(<<"'" \o TypeName(params) \o "' object has no attribute 'get'">>)

write_file(params, env) ==
  IF params.t # "obj" THEN NoGet(params) ELSE
  LET path == PyGet(params.m, "path", Null)
      content == PyGet(params.m, "content", Null)
  IN IF ~Truthy(path) \/ content = Null
       THEN Returned(<<"Error", ":", " 'path' and 'content' are required.">>)
     ELSE IF env.io = "ok"
       THEN Returned(<<"File '", Fmt(path), "' written successfully.">>)
     ELSE Returned(<<"Error", " writing file '", Fmt(path), "': ", Cause(env)>>)

read_file(params, env) ==
  IF params.t # "obj" THEN NoGet(params) ELSE
  LET path == PyGet(params.m, "path", Null)
  IN IF ~Truthy(path)
       THEN Returned(<<"Error", ":", " 'path' is required.">>)
     ELSE IF env.io = "ok"
       THEN Returned(IF env.big THEN <<BigToken>> ELSE <<"<file content>">>)
     ELSE IF env.io = "FileNotFoundError"
       THEN Returned(<<"Error", ":", " File not found at '", Fmt(path), "'.">>)
     ELSE Returned(<<"Error", " reading file '", Fmt(path), "': ", Cause(env)>>)

run_command(params, env) ==
  IF params.t # "obj" THEN NoGet(params) ELSE
  LET command == PyGet(params.m, "command", Null)
  IN IF ~Truthy(command)
       THEN Returned(<<"Error", ":", " 'command' is required.">>)
     ELSE IF env.io = "ok"
       \* the tool itself cuts its output at 4000 characters
       THEN Returned(<<"Exit Code: ", "<stdout and stderr>">>)
     ELSE Returned(<<"Error", " running command '", Fmt(command), "': ",
                     Cause(env)>>)

run_in_new_terminal(params, env) ==
  IF params.t # "obj" THEN NoGet(params) ELSE
  LET command == PyGet(params.m, "command", Null)
  IN IF ~Truthy(command)
       THEN Returned(<<"Error", ":", " 'command' is required.">>)
     ELSE IF ~env.darwin
       THEN Returned(<<"Error", ":",
                       " run_in_new_terminal only works on macOS. Use run_command instead.">>)
     ELSE IF env.io = "ok"
       THEN Returned(<<"Command '", Fmt(command),
                       "' launched in a new Terminal window.">>)
     ELSE Returned(<<"Error", " running command '", Fmt(command),
                     "' in new terminal: ", Cause(env)>>)

append_file(params, env) ==
  IF params.t # "obj" THEN NoGet(params) ELSE
  LET path == PyGet(params.m, "path", Null)
      content == PyGet(params.m, "content", Null)
  IN IF ~Truthy(path) \/ content = Null
       THEN Returned(<<"Error", ":", " 'path' and 'content' are required.">>)
     ELSE IF env.io = "ok"
       THEN Returned(<<"Content appended to '", Fmt(path), "'.">>)
     ELSE Returned(<<"Error", " appending to file '", Fmt(path), "': ",
                     Cause(env)>>)

list_files(params, env) ==
  IF params.t # "obj" THEN NoGet(params) ELSE
  LET directory == PyGet(params.m, "directory", Str("."))
  IN IF env.io = "ok"
       THEN Returned(IF env.big THEN <<BigToken>> ELSE <<"<directory entries>">>)
     ELSE IF env.io = "FileNotFoundError"
       THEN Returned(<<"Error", ":", " Directory not found at '",
                       Fmt(directory), "'.">>)
     ELSE Returned(<<"Error", " listing files in '", Fmt(directory), "': ",
                     Cause(env)>>)

search_in_file(params, env) ==
  IF params.t # "obj" THEN NoGet(params) ELSE
  LET path == PyGet(params.m, "path", Null)
      q == PyGet(params.m, "query", Null)
  IN IF ~Truthy(path) \/ ~Truthy(q)
       THEN Returned(<<"Error", ":", " 'path' and 'query' are required.">>)
     ELSE IF env.io = "ok"
       THEN Returned(IF env.big THEN <<BigToken>> ELSE <<"<matches>">>)
     ELSE IF env.io = "FileNotFoundError"
       THEN Returned(<<"Error", ":", " File not found at '", Fmt(path), "'.">>)
     ELSE Returned(<<"Error", " searching in file '", Fmt(path), "': ",
                     Cause(env)>>)

delete_file(params, env) ==
  IF params.t # "obj" THEN NoGet(params) ELSE
  LET path == PyGet(params.m, "path", Null)
  IN IF ~Truthy(path)
       THEN Returned(<<"Error", ":", " 'path' is required.">>)
     ELSE IF env.io = "ok"
       THEN Returned(<<"File '", Fmt(path), "' deleted successfully.">>)
     ELSE IF env.io = "FileNotFoundError"
       THEN Returned(<<"Error", ":", " File not found at '", Fmt(path),
                       "', cannot delete.">>)
     ELSE IF env.io = "IsADirectoryError"
       THEN Returned(<<"Error", ":", " '", Fmt(path),
                       "' is a directory. Use delete_directory tool.">>)
     ELSE Returned(<<"Error", " deleting file '", Fmt(path), "': ", Cause(env)>>)

create_directory(params, env) ==
  IF params.t # "obj" THEN NoGet(params) ELSE
  LET directory == PyGet(params.m, "directory", Null)
  IN IF ~Truthy(directory)
       THEN Returned(<<"Error", ":", " 'directory' is required.">>)
     ELSE IF env.io = "ok"
       THEN Returned(<<"Directory '", Fmt(directory),
                       "' created or already exists.">>)
     ELSE Returned(<<"Error", " creating directory '", Fmt(directory), "': ",
                     Cause(env)>>)

\* The process's working directory, its parent and the user's home, as
\* absolute paths.
Cwd == "/work/proj"
ParentDir == "/work"
HomeDir == "/home/user"

\* The directory names the model uses: spellings of the working directory,
\* of its parent, of the root and of the home directory, a subdirectory, a
\* name of no directory, and "." between blanks.
DirNames ==
  {".", "./", "/work/proj", "..", "../", "/work", "/", "/home/user",
   "/home/user/", "sub", "nodir", " . "}

\* str.strip() on the directory names the model uses
Strip(d) == IF d = " . " THEN "." ELSE d

\* os.path.abspath(d) with the working directory Cwd
AbsPath(d) ==
  CASE d \in {".", "./", "/work/proj"} -> Cwd
    [] d \in {"..", "../", "/work"} -> ParentDir
    [] d = "/" -> "/"
    [] d \in {"/home/user", "/home/user/"} -> HomeDir
    [] OTHER -> Cwd \o "/" \o d

\* os.path.isdir(d): every name of the model but "nodir" and " . " is one
IsDir(d) == d \notin {"nodir", " . "}

\* shutil.rmtree(directory) runs on the last two branches: it removes the
\* contents whether it returns or raises at the end.
delete_directory(params, env) ==
  IF params.t # "obj" THEN NoGet(params) ELSE
  LET directory == PyGet(params.m, "directory", Null)
  IN IF ~Truthy(directory)
       THEN Returned(<<"Error", ":", " 'directory' is required.">>)
     ELSE IF ~IsDir(Fmt(directory))
       THEN Returned(<<"Error", ":", " '", Fmt(directory),
                       "' is not a valid directory.">>)
     ELSE IF Strip(Fmt(directory)) \in {".", "..", "/"}
             \/ AbsPath(Fmt(directory)) = HomeDir
       THEN Returned(<<"Error", ":", " Safety preventions disallow deleting '",
                       Fmt(directory), "'.">>)
     ELSE IF env.io = "ok"
       THEN Returned(<<"Directory '", Fmt(directory),
                       "' and its contents deleted successfully.">>)
     ELSE Returned(<<"Error", " deleting directory '", Fmt(directory), "': ",
                     Cause(env)>>)

ask_user_for_feedback(params, env) ==
  IF params.t # "obj" THEN NoGet(params) ELSE
  LET question == PyGet(params.m, "question", Null)
  IN IF ~Truthy(question)
       THEN Returned(<<"Error", ":",
                       " 'question' parameter is required for ask_user_for_feedback.">>)
     ELSE IF env.io = "ok"
       THEN Returned(<<"User response to '", Fmt(question), "': ",
                       "<user response>">>)
     ELSE IF env.io = "EOFError"
       THEN Returned(<<"Error", ":", " Could not get user input (EOF reached).">>)
     ELSE Returned(<<"Error", " getting user input: ", Cause(env)>>)

\* tool_info["fn"](function_input)
ToolFn(name, params, env) ==
  CASE name = "write_file" -> write_file(params, env)
    [] name = "read_file" -> read_file(params, env)
    [] name = "run_command" -> run_command(params, env)
    [] name = "run_in_new_terminal" -> run_in_new_terminal(params, env)
    [] name = "ask_user_for_feedback" -> ask_user_for_feedback(params, env)
    [] name = "append_file" -> append_file(params, env)
    [] name = "list_files" -> list_files(params, env)
    [] name = "search_in_file" -> search_in_file(params, env)
    [] name = "delete_file" -> delete_file(params, env)
    [] name = "create_directory" -> create_directory(params, env)
    [] name = "delete_directory" -> delete_directory(params, env)

-----------------------------------------------------------------------------
(* The dispatcher: CodingAgent._execute_tool.                              *)

\* max_tool_output_length: len(output) > 5000 holds of the texts that carry
\* the token BigToken.
TooLong(txt) == BigToken \in Range(txt)

\* output[:max_tool_output_length] + "\n... (tool output truncated)"
Truncate(txt) == <<"<first 5000 characters>", "\n... (tool output truncated)">>

\* Whether `x in function_input` can be evaluated: a number, a bool or None
\* is not iterable and the test raises TypeError.
Iterable(inp) == inp.t \in {"obj", "list", "str", "text"}

\* param in function_input.  For a dict: a key.  For a list: an element.
\* For a str: a substring; the str inputs of the model are "" or a
\* parameter's name.
In(param, inp) ==
  CASE inp.t = "obj"  -> param \in DOMAIN inp.m
    [] inp.t = "list" -> Str(param) \in Range(inp.items)
    [] inp.t = "str"  -> inp.s = param
    [] OTHER -> FALSE

NotIterable(inp) ==
  <<"argument of type '" \o TypeName(inp) \o "' is not iterable">>

BadIndex(inp) ==
  <<TypeName(inp) \o " indices must be integers">>

MissingParameter(param, function_name) ==
  <<"Error", ":", " Missing required parameter '", param, "' for tool '",
    Fmt(function_name), "'.">>

InvalidType(param_name, actual_value) ==
  <<"Error", ":", " Invalid type for parameter '", param_name,
    "'. Expected string, got ", TypeName(actual_value), ".">>

ToolNotFound(function_name) ==
  <<"Error", ":", " Tool '", Fmt(function_name), "' not found.">>

ErrorExecuting(function_name, cause) ==
  <<"Error", " executing tool '", Fmt(function_name), "': ">> \o cause

\* The outcome of a validation loop: it falls through ("pass"), returns a
\* text ("return") or raises inside the try block ("raise").
Pass == [outcome |-> "pass", text |-> <<>>]
Return(txt) == [outcome |-> "return", text |-> txt]
Raise(txt) == [outcome |-> "raise", text |-> txt]

\* CheckRequired letting every input through
CheckRequiredNone(function_name, required_params, function_input, i) == Pass

\* CheckRequired stopping after the first required parameter
CheckRequiredFirstOnly(function_name, required_params, function_input, i) ==
  IF i > Len(required_params) THEN Pass
  ELSE IF ~Iterable(function_input) THEN Raise(NotIterable(function_input))
  ELSE IF ~In(required_params[i], function_input)
    THEN Return(MissingParameter(required_params[i], function_name))
  ELSE Pass

\* for param in required_params: if param not in function_input: return ...
RECURSIVE CheckRequired(_, _, _, _)
CheckRequired(function_name, required_params, function_input, i) ==
  IF i > Len(required_params) THEN Pass
  ELSE IF ~Iterable(function_input) THEN Raise(NotIterable(function_input))
  ELSE IF ~In(required_params[i], function_input)
    THEN Return(MissingParameter(required_params[i], function_name))
  ELSE CheckRequired(function_name, required_params, function_input, i + 1)

\* CheckTypes looking at the first declared parameter only
CheckTypesFirstOnly(properties, function_input, i) ==
  IF i > Len(properties) THEN Pass
  ELSE IF ~Iterable(function_input) THEN Raise(NotIterable(function_input))
  ELSE IF ~In(properties[i].name, function_input) THEN Pass
  ELSE IF function_input.t # "obj" THEN Raise(BadIndex(function_input))
  ELSE LET actual_value == function_input.m[properties[i].name]
       IN IF properties[i].type = "string" /\ ~IsStr(actual_value)
            THEN Return(InvalidType(properties[i].name, actual_value))
          ELSE Pass

\* CheckTypes accepting a value of any type
CheckTypesNone(properties, function_input, i) == Pass

\* for param_name, param_data in properties.items(): ... isinstance(..., str)
RECURSIVE CheckTypes(_, _, _)
CheckTypes(properties, function_input, i) ==
  IF i > Len(properties) THEN Pass
  ELSE IF ~Iterable(function_input) THEN Raise(NotIterable(function_input))
  ELSE IF ~In(properties[i].name, function_input)
    THEN CheckTypes(properties, function_input, i + 1)
  ELSE IF function_input.t # "obj" THEN Raise(BadIndex(function_input))
  ELSE LET actual_value == function_input.m[properties[i].name]
       IN IF properties[i].type = "string" /\ ~IsStr(actual_value)
            THEN Return(InvalidType(properties[i].name, actual_value))
          ELSE CheckTypes(properties, function_input, i + 1)

\* What _execute_tool gives: `escaped` when an exception leaves it, else the
\* returned text `output`; `invoked` counts the calls of the tool
\* implementation and `fault` says that implementation raised.
Result(escaped, output, invoked, fault) ==
  [escaped |-> escaped, output |-> output, invoked |-> invoked, fault |-> fault]

\* Dispatch calling the tool a second time when it raised
DispatchRetry(function_name, function_input, env) ==
  LET tool_info == AVAILABLE_TOOLS[function_name.s]
      req == CheckRequired(function_name, tool_info.required, function_input, 1)
      typ == CheckTypes(tool_info.properties, function_input, 1)
      out == ToolFn(function_name.s, function_input, env)
  IN IF req.outcome = "return" THEN Result(FALSE, req.text, 0, FALSE)
     ELSE IF req.outcome = "raise"
       THEN Result(FALSE, ErrorExecuting(function_name, req.text), 0, FALSE)
     ELSE IF typ.outcome = "return" THEN Result(FALSE, typ.text, 0, FALSE)
     ELSE IF typ.outcome = "raise"
       THEN Result(FALSE, ErrorExecuting(function_name, typ.text), 0, FALSE)
     ELSE IF out.raised
       THEN Result(FALSE, ErrorExecuting(function_name, out.text), 2, TRUE)
     ELSE IF TooLong(out.text)
       THEN Result(FALSE, Truncate(out.text), 1, FALSE)
     ELSE Result(FALSE, out.text, 1, FALSE)

\* Dispatch without the except clause: the tool's exception leaves it
DispatchNoCatch(function_name, function_input, env) ==
  LET tool_info == AVAILABLE_TOOLS[function_name.s]
      req == CheckRequired(function_name, tool_info.required, function_input, 1)
      typ == CheckTypes(tool_info.properties, function_input, 1)
      out == ToolFn(function_name.s, function_input, env)
  IN IF req.outcome = "return" THEN Result(FALSE, req.text, 0, FALSE)
     ELSE IF req.outcome = "raise" THEN Result(TRUE, req.text, 0, FALSE)
     ELSE IF typ.outcome = "return" THEN Result(FALSE, typ.text, 0, FALSE)
     ELSE IF typ.outcome = "raise" THEN Result(TRUE, typ.text, 0, FALSE)
     ELSE IF out.raised THEN Result(TRUE, out.text, 1, TRUE)
     ELSE IF TooLong(out.text)
       THEN Result(FALSE, Truncate(out.text), 1, FALSE)
     ELSE Result(FALSE, out.text, 1, FALSE)

\* Dispatch without the parameter validation
DispatchNoValidation(function_name, function_input, env) ==
  LET out == ToolFn(function_name.s, function_input, env)
  IN IF out.raised
       THEN Result(FALSE, ErrorExecuting(function_name, out.text), 1, TRUE)
     ELSE IF TooLong(out.text)
       THEN Result(FALSE, Truncate(out.text), 1, FALSE)
     ELSE Result(FALSE, out.text, 1, FALSE)

\* The try block of _execute_tool for a registered tool.
Dispatch(function_name, function_input, env) ==
  LET tool_info == AVAILABLE_TOOLS[function_name.s]
      req == CheckRequired(function_name, tool_info.required, function_input, 1)
      typ == CheckTypes(tool_info.properties, function_input, 1)
      out == ToolFn(function_name.s, function_input, env)
  IN IF req.outcome = "return" THEN Result(FALSE, req.text, 0, FALSE)
     ELSE IF req.outcome = "raise"
       THEN Result(FALSE, ErrorExecuting(function_name, req.text), 0, FALSE)
     ELSE IF typ.outcome = "return" THEN Result(FALSE, typ.text, 0, FALSE)
     ELSE IF typ.outcome = "raise"
       THEN Result(FALSE, ErrorExecuting(function_name, typ.text), 0, FALSE)
     ELSE IF out.raised
       THEN Result(FALSE, ErrorExecuting(function_name, out.text), 1, TRUE)
     ELSE IF TooLong(out.text)
       THEN Result(FALSE, Truncate(out.text), 1, FALSE)
     ELSE Result(FALSE, out.text, 1, FALSE)

\* function_name in self.tools: hashing a list or a dict raises TypeError
\* outside the try block.
execute_tool(function_name, function_input, env) ==
  IF ~Hashable(function_name)
    THEN Result(TRUE, <<"unhashable type: '" \o TypeName(function_name) \o "'">>,
                0, FALSE)
  ELSE IF function_name.t = "str" /\ function_name.s \in ToolNames
    THEN Dispatch(function_name, function_input, env)
  ELSE Result(FALSE, ToolNotFound(function_name), 0, FALSE)

-----------------------------------------------------------------------------
(* Messages and the protocol codec: CodingAgent._call_llm.                 *)

\* A message content is a text with a shape: how json.loads reads the whole
\* text.  "clean": the text is one JSON object, `payload`.  "prose": the
\* object `payload` with other text around it, so the whole text does not
\* decode.  "list": the object inside a JSON array, so the whole text
\* decodes to a list.  "plain": no JSON at all.
Content(shape, payload) == [shape |-> shape, payload |-> payload]

Message(role, content) == [role |-> role, content |-> content]

\* json.dumps({"step": step, "content": txt})
JsonDumpsStep(step, txt) ==
  Content("clean", [step |-> Str(step), content |-> Text(txt)])

\* {"role": "assistant", "content": json.dumps({"step": "observe", ...})}
ObserveMessage(txt) == Message("assistant", JsonDumpsStep("observe", txt))

\* {"role": "system", "content": self.system_prompt}
SystemMessage == Message("system", Content("plain", Str("system_prompt")))

UserMessage(user_query) == Message("user", Content("plain", Str(user_query)))

\* json.loads(content): the decoded value, or JSONDecodeError
JsonLoads(content) ==
  CASE content.shape = "clean" -> [ok |-> TRUE, value |-> Obj(content.payload)]
    [] content.shape = "list"  ->
         [ok |-> TRUE, value |-> List(<<Obj(content.payload)>>)]
    [] OTHER -> [ok |-> FALSE, value |-> Null]

\* A model round-trip gives: an APIError ("api_error"), another exception
\* ("exception"), or a response content ("ok") of some shape: "empty", no
\* JSON object in it ("nojson", "badjson"), or a decodable object `payload`
\* ("clean", "prose", "list").
Response(kind, shape, payload) ==
  [kind |-> kind, shape |-> shape, payload |-> payload]

\* No round-trip was made yet.
NoResponse == Response("none", "none", EmptyObj)

\* What _call_llm gives: the history after it and the step it returns.
Called(msgs, parsed) == [messages |-> msgs, parsed |-> parsed]

ObserveStep(txt) == [step |-> Str("observe"), content |-> Text(txt)]

InvalidJson(shape, cause) ==
  <<"Error", ":", " Invalid JSON response received: ", "<" \o shape \o ">",
    ". Please provide output strictly in the required JSON format with all necessary keys (",
    cause, "). Only output the JSON object itself, nothing else.">>

\* ParseFailure keeping the rejected response in the history as well
ParseFailureKeepsRaw(msgs, shape, cause) ==
  Called(Append(Append(msgs, Message("assistant", Content(shape, EmptyObj))),
                ObserveMessage(InvalidJson(shape, cause))),
         ObserveStep(<<"Error", ":", " Invalid JSON response received from LLM.">>))

\* The except (json.JSONDecodeError, ValueError) branch
ParseFailure(msgs, shape, cause) ==
  Called(Append(msgs, ObserveMessage(InvalidJson(shape, cause))),
         ObserveStep(<<"Error", ":", " Invalid JSON response received from LLM.">>))

\* Decode leaving the history alone when the response parses
DecodeNoAppend(msgs, resp) ==
  IF resp.shape = "nojson"
    THEN ParseFailure(msgs, resp.shape, "No JSON object found")
  ELSE IF resp.shape = "badjson"
    THEN ParseFailure(msgs, resp.shape, "<JSONDecodeError>")
  ELSE IF "step" \notin DOMAIN resp.payload
    THEN ParseFailure(msgs, resp.shape, "Missing 'step' key in LLM response.")
  ELSE IF resp.payload["step"] = Str("action")
          /\ ("function" \notin DOMAIN resp.payload
              \/ "input" \notin DOMAIN resp.payload)
    THEN ParseFailure(msgs, resp.shape,
                      "Malformed 'action' step: missing 'function' or 'input'.")
  ELSE Called(msgs, resp.payload)

\* The inner try block: extraction, decoding and the basic validation
Decode(msgs, resp) ==
  IF resp.shape = "nojson"
    THEN ParseFailure(msgs, resp.shape, "No JSON object found")
  ELSE IF resp.shape = "badjson"
    THEN ParseFailure(msgs, resp.shape, "<JSONDecodeError>")
  ELSE IF "step" \notin DOMAIN resp.payload
    THEN ParseFailure(msgs, resp.shape, "Missing 'step' key in LLM response.")
  ELSE IF resp.payload["step"] = Str("action")
          /\ ("function" \notin DOMAIN resp.payload
              \/ "input" \notin DOMAIN resp.payload)
    THEN ParseFailure(msgs, resp.shape,
                      "Malformed 'action' step: missing 'function' or 'input'.")
  ELSE Called(Append(msgs, Message("assistant",
                                   Content(resp.shape, resp.payload))),
              resp.payload)

\* _call_llm returning None, with nothing appended, when the call fails
call_llm_gives_up(msgs, resp) ==
  IF resp.kind \in {"api_error", "exception"} THEN Called(msgs, EmptyObj)
  ELSE IF resp.shape = "empty"
    THEN Called(Append(msgs, ObserveMessage(
                  <<"Error", ":", " LLM returned empty content. Please try again.">>)),
                ObserveStep(<<"Error", ":", " LLM returned empty content.">>))
  ELSE Decode(msgs, resp)

call_llm(msgs, resp) ==
  IF resp.kind = "api_error"
    THEN Called(Append(msgs, ObserveMessage(
                  <<"Error", ":", " API Error encountered: ", "<APIError>",
                    ". The request may need to be retried or modified.">>)),
                ObserveStep(<<"Error", ":", " API Error: ", "<APIError>">>))
  ELSE IF resp.kind = "exception"
    THEN Called(Append(msgs, ObserveMessage(
                  <<"Error", ":", " An unexpected issue occurred: ", "<Exception>",
                    ". Please analyze the situation.">>)),
                ObserveStep(<<"Error", ":", " Unexpected error: ", "<Exception>">>))
  ELSE IF resp.shape = "empty"
    THEN Called(Append(msgs, ObserveMessage(
                  <<"Error", ":", " LLM returned empty content. Please try again.">>)),
                ObserveStep(<<"Error", ":", " LLM returned empty content.">>))
  ELSE Decode(msgs, resp)

-----------------------------------------------------------------------------
(* The agent loop: CodingAgent.run_interaction.                            *)

HardFailureText ==
  <<"Agent failed to get a valid response from the language model.">>

TimeoutText ==
  <<"Reached maximum iterations (", ToString(max_iterations),
    "). The task may be incomplete. Please review the steps or refine the request.">>

MalformedActionText ==
  <<"Error", ":",
    " Your previous 'action' step was malformed (missing 'function' or 'input'). Please provide a valid action step with both fields in the correct JSON format.">>

UnknownStepText(step) ==
  <<"Error", ":", " You provided an unknown step type '", Fmt(step),
    "'. Allowed steps are 'plan', 'action', 'output'. Please respond with a valid step in the correct JSON format.">>

OutputMessage(txt) == Message("assistant", JsonDumpsStep("output", txt))

\* No _execute_tool call was made.
NoResult == Result(FALSE, <<>>, 0, FALSE)
DefaultEnv == [io |-> "ok", big |-> FALSE, darwin |-> TRUE]
NoCall == [made |-> FALSE, function_name |-> Null, function_input |-> Null,
           env |-> DefaultEnv, result |-> NoResult]
MadeCall(function_name, function_input, env, result) ==
  [made |-> TRUE, function_name |-> function_name,
   function_input |-> function_input, env |-> env, result |-> result]

\* What one pass through the body of the while loop gives: the history, how
\* the pass ends ("continue", "break", or "raise" when an exception leaves
\* run_interaction), the final messages shown to the user, and the
\* _execute_tool call it made.
Pass1(msgs, next, shown, made) ==
  [messages |-> msgs, next |-> next, shown |-> shown, call |-> made]

\* ActionBranch appending the observation twice
ActionBranchEchoes(msgs, parsed, env) ==
  LET function_name == PyGet(parsed, "function", Null)
      function_input == PyGet(parsed, "input", Null)
      r == execute_tool(function_name, function_input, env)
      made == MadeCall(function_name, function_input, env, r)
  IN IF ~Truthy(function_name) \/ function_input = Null
       THEN Pass1(Append(msgs, ObserveMessage(MalformedActionText)),
                  "continue", <<>>, NoCall)
     ELSE IF r.escaped
       THEN Pass1(msgs, "raise", <<>>, made)
     ELSE Pass1(msgs \o <<ObserveMessage(r.output), ObserveMessage(r.output)>>,
                "continue", <<>>, made)

\* ActionBranch without the test of function_name and function_input
ActionBranchNoGuard(msgs, parsed, env) ==
  LET function_name == PyGet(parsed, "function", Null)
      function_input == PyGet(parsed, "input", Null)
      r == execute_tool(function_name, function_input, env)
      made == MadeCall(function_name, function_input, env, r)
  IN IF r.escaped
       THEN Pass1(msgs, "raise", <<>>, made)
     ELSE Pass1(Append(msgs, ObserveMessage(r.output)), "continue", <<>>, made)

\* The elif step == "action" branch
ActionBranch(msgs, parsed, env) ==
  LET function_name == PyGet(parsed, "function", Null)
      function_input == PyGet(parsed, "input", Null)
      r == execute_tool(function_name, function_input, env)
      made == MadeCall(function_name, function_input, env, r)
  IN IF ~Truthy(function_name) \/ function_input = Null
       THEN Pass1(Append(msgs, ObserveMessage(MalformedActionText)),
                  "continue", <<>>, NoCall)
     ELSE IF r.escaped
       THEN Pass1(msgs, "raise", <<>>, made)
     ELSE Pass1(Append(msgs, ObserveMessage(r.output)), "continue", <<>>, made)

\* ObserveBranch ending the interaction on every observe step
ObserveBranchGivesUp(msgs, parsed) ==
  Pass1(Append(msgs, OutputMessage(HardFailureText)), "break",
        <<"hard_failure">>, NoCall)

\* The branch for a failed call or an observe step returned by _call_llm
ObserveBranch(msgs, parsed) ==
  IF parsed # EmptyObj /\ "content" \in DOMAIN parsed
    THEN Pass1(msgs, "continue", <<>>, NoCall)
  ELSE Pass1(Append(msgs, OutputMessage(HardFailureText)), "break",
             <<"hard_failure">>, NoCall)

\* StepBranch saying nothing about a step it does not know
StepBranchSilent(msgs, parsed, env) ==
  LET step == PyGet(parsed, "step", Null)
  IN IF parsed = EmptyObj \/ step = Str("observe")
       THEN ObserveBranch(msgs, parsed)
     ELSE IF step = Str("plan")
       THEN Pass1(msgs, "continue", <<>>, NoCall)
     ELSE IF step = Str("action")
       THEN ActionBranch(msgs, parsed, env)
     ELSE IF step = Str("output")
       THEN Pass1(msgs, "break", <<"model_output">>, NoCall)
     ELSE Pass1(msgs, "continue", <<>>, NoCall)

\* The body of the while loop after _call_llm returned `parsed`
StepBranch(msgs, parsed, env) ==
  LET step == PyGet(parsed, "step", Null)
  IN IF parsed = EmptyObj \/ step = Str("observe")
       THEN ObserveBranch(msgs, parsed)
     ELSE IF step = Str("plan")
       THEN Pass1(msgs, "continue", <<>>, NoCall)
     ELSE IF step = Str("action")
       THEN ActionBranch(msgs, parsed, env)
     ELSE IF step = Str("output")
       THEN Pass1(msgs, "break", <<"model_output">>, NoCall)
     ELSE Pass1(Append(msgs, ObserveMessage(UnknownStepText(step))),
                "continue", <<>>, NoCall)

\* What the code after the loop gives: the history, the final message it
\* shows, and whether an exception leaves run_interaction.
Ended(msgs, shown, raised) ==
  [messages |-> msgs, shown |-> shown, raised |-> raised]

\* PostLoop writing the timeout notice over the last message
PostLoopOverwrites(msgs, count) ==
  IF count < max_iterations THEN Ended(msgs, <<>>, FALSE)
  ELSE
    LET last == msgs[Len(msgs)]
        decoded == JsonLoads(last.content)
        last_msg == IF last.role = "assistant" /\ decoded.ok
                      THEN decoded.value ELSE Obj(EmptyObj)
    IN IF last_msg.t # "obj"
         THEN Ended(msgs, <<>>, TRUE)
       ELSE IF PyGet(last_msg.m, "step", Null) # Str("output")
         THEN Ended([msgs EXCEPT ![Len(msgs)] = OutputMessage(TimeoutText)],
                    <<"timeout">>, FALSE)
       ELSE Ended(msgs, <<>>, FALSE)

\* The code after the while loop
PostLoop(msgs, count) ==
  IF count < max_iterations THEN Ended(msgs, <<>>, FALSE)
  ELSE
    LET last == msgs[Len(msgs)]
        decoded == JsonLoads(last.content)
        last_msg == IF last.role = "assistant" /\ decoded.ok
                      THEN decoded.value ELSE Obj(EmptyObj)
    IN IF last_msg.t # "obj"
         \* last_msg.get on a list: AttributeError
         THEN Ended(msgs, <<>>, TRUE)
       ELSE IF PyGet(last_msg.m, "step", Null) # Str("output")
         THEN Ended(Append(msgs, OutputMessage(TimeoutText)), <<"timeout">>, FALSE)
       ELSE Ended(msgs, <<>>, FALSE)

\* A reset that keeps the whole history
ResetKeepsHistory(msgs, user_query) == Append(msgs, UserMessage(user_query))

\* self.messages = [self.messages[0]]; self.messages.append(user message)
ResetHistory(msgs, user_query) == <<msgs[1], UserMessage(user_query)>>

\* The counter advancing by two
NextCountTwice(count) == count + 2

\* iteration_count += 1
NextCount(count) == count + 1

UserQuery(n) == "query " \o ToString(n)

-----------------------------------------------------------------------------
(* The inputs the model explores.                                          *)

\* Values the model gives to "function" in an action step
LoopFunctions ==
  {Null, Str(""), Str("write_file"), Str("list_files"), Str("no_such_tool"),
   Num(5), List(<<Str("write_file")>>)}

\* Values the model gives to "input" in an action step
LoopInputs ==
  {Null, Obj(EmptyObj), Str(""),
   Obj([path |-> Str("a.txt")]),
   Obj([path |-> Str("a.txt"), content |-> Str("hi")]),
   Obj([path |-> Num(5), content |-> Str("hi")])}

\* Action payloads: every function value with a complete write_file input,
\* every input value with write_file, list_files (which requires nothing)
\* with the inputs that are no dict, and each of "function" and "input"
\* absent
ActionStep(f, i) == [step |-> Str("action"), function |-> f, input |-> i]

ActionPayloads ==
  {ActionStep(f, Obj([path |-> Str("a.txt"), content |-> Str("hi")])) :
      f \in LoopFunctions}
  \cup {ActionStep(Str("write_file"), i) : i \in LoopInputs}
  \cup {ActionStep(Str("list_files"), i) : i \in {Null, Obj(EmptyObj), Str("")}}
  \cup {[step |-> Str("action"), function |-> Str("write_file")],
        [step |-> Str("action"), input |-> Obj(EmptyObj)],
        [step |-> Str("action")]}

\* Payloads of the other steps, with and without "content"; "think" and a
\* number stand for the unrecognised step values
OtherPayloads ==
  {[step |-> Str(st), content |-> Str("text")] :
      st \in {"plan", "observe", "output", "think"}}
  \cup {[step |-> Str(st)] : st \in {"plan", "observe", "output"}}
  \cup {[step |-> Num(5), content |-> Str("text")]}
  \cup {[content |-> Str("text")], EmptyObj}

Responses ==
  {Response("api_error", "none", EmptyObj), Response("exception", "none", EmptyObj),
   Response("ok", "empty", EmptyObj), Response("ok", "nojson", EmptyObj),
   Response("ok", "badjson", EmptyObj)}
  \cup {Response("ok", "clean", p) : p \in ActionPayloads \cup OtherPayloads}
  \cup {Response("ok", sh, p) :
          sh \in {"prose", "list"},
          p \in {[step |-> Str("plan"), content |-> Str("text")],
                 [step |-> Str("output"), content |-> Str("text")]}}

\* What the environment answers to a tool in the loop
LoopEnvs ==
  {[io |-> "ok", big |-> FALSE, darwin |-> TRUE],
   [io |-> "OSError", big |-> FALSE, darwin |-> TRUE]}

-----------------------------------------------------------------------------
(* The state machine.                                                      *)

\* CodingAgent.__init__: the history holds the system message alone.
Init ==
  /\ messages = <<SystemMessage>>
  /\ pc = "Idle"
  /\ iteration_count = 0
  /\ query = 0
  /\ parsed_output = EmptyObj
  /\ llm_calls = 0
  /\ tool_calls = 0
  /\ finals = <<>>
  /\ call = NoCall
  /\ response = NoResponse

\* The main loop hands the next user query to run_interaction; it does so
\* after an interaction that returned and after one that raised.
StartInteraction ==
  /\ pc \in {"Idle", "Done", "Crashed"}
  /\ query < MaxQueries
  /\ query' = query + 1
  /\ messages' = ResetHistory(messages, UserQuery(query + 1))
  /\ iteration_count' = 0
  /\ pc' = "AwaitingModel"
  /\ parsed_output' = EmptyObj
  /\ llm_calls' = 0
  /\ tool_calls' = 0
  /\ finals' = <<>>
  /\ call' = NoCall
  /\ response' = NoResponse

\* One pass through the while loop: the round-trip, the branch on the step,
\* and on break the code after the loop.
Iterate(resp, env) ==
  /\ pc = "AwaitingModel"
  /\ iteration_count < max_iterations
  /\ LET count == NextCount(iteration_count)
         c == call_llm(messages, resp)
         b == StepBranch(c.messages, c.parsed, env)
         e == PostLoop(b.messages, count)
     IN /\ iteration_count' = count
        /\ llm_calls' = llm_calls + 1
        /\ parsed_output' = c.parsed
        /\ response' = resp
        /\ tool_calls' = b.call.result.invoked
        /\ call' = b.call
        /\ IF b.next = "continue"
             THEN /\ messages' = b.messages
                  /\ finals' = finals \o b.shown
                  /\ pc' = "AwaitingModel"
           ELSE IF b.next = "raise"
             THEN /\ messages' = b.messages
                  /\ finals' = finals \o b.shown
                  /\ pc' = "Crashed"
           ELSE /\ messages' = e.messages
                /\ finals' = finals \o b.shown \o e.shown
                /\ pc' = IF e.raised THEN "Crashed" ELSE "Done"
  /\ UNCHANGED query

\* The while condition fails: the code after the loop runs.
Ceiling ==
  /\ pc = "AwaitingModel"
  /\ iteration_count >= max_iterations
  /\ LET e == PostLoop(messages, iteration_count)
     IN /\ messages' = e.messages
        /\ finals' = finals \o e.shown
        /\ pc' = IF e.raised THEN "Crashed" ELSE "Done"
  /\ UNCHANGED <<iteration_count, query, parsed_output, llm_calls, tool_calls,
                 call, response>>

Next ==
  \/ StartInteraction
  \/ \E resp \in Responses, env \in LoopEnvs : Iterate(resp, env)
  \/ Ceiling

Spec == Init /\ [][Next]_vars

-----------------------------------------------------------------------------
(* The dispatcher on its own: _execute_tool applied to one call whose      *)
(* arguments and environment are drawn from the sets below.                *)

ParamNames == {"path", "content", "command", "question", "directory", "query"}

ToolValues == {Str("x"), Num(5)}

\* Every mapping from some parameter names to a string or a number, the
\* mappings that carry an empty string, and inputs that are no mapping
ToolMappings ==
  {Obj(m) : m \in UNION {[K -> ToolValues] : K \in SUBSET ParamNames}}
  \cup {Obj([path |-> Str(""), content |-> Str("x")]),
        Obj([path |-> Str("x"), content |-> Str("")]),
        Obj([directory |-> Str("")])}
  \cup {Obj([directory |-> Str(d)]) : d \in DirNames}

ToolInputs ==
  ToolMappings \cup {Null, Num(5), Str(""), Str("path"), List(<<Str("path")>>),
                     List(<<>>)}

\* The registered names, a short and an over-long name of no tool, and
\* values that are no string
ToolFunctions ==
  {Str(n) : n \in ToolNames}
  \cup {Str("no_such_tool"), Str(BigToken), Num(5), List(<<Str("read_file")>>)}

ToolEnvs ==
  {[io |-> x, big |-> b, darwin |-> TRUE] :
      x \in {"ok", "FileNotFoundError", "OSError"}, b \in BOOLEAN}

InitTool ==
  /\ messages = <<SystemMessage>>
  /\ pc = "Call"
  /\ iteration_count = 0
  /\ query = 0
  /\ parsed_output = EmptyObj
  /\ llm_calls = 0
  /\ tool_calls = 0
  /\ finals = <<>>
  /\ response = NoResponse
  /\ call \in {[made |-> FALSE, function_name |-> f, function_input |-> i,
                env |-> e, result |-> NoResult] :
                  f \in ToolFunctions, i \in ToolInputs, e \in ToolEnvs}

\* self._execute_tool(function_name, function_input)
ExecuteTool ==
  /\ pc = "Call"
  /\ LET r == execute_tool(call.function_name, call.function_input, call.env)
     IN /\ call' = MadeCall(call.function_name, call.function_input, call.env, r)
        /\ tool_calls' = r.invoked
        /\ pc' = IF r.escaped THEN "Raised" ELSE "Returned"
  /\ UNCHANGED <<messages, iteration_count, query, parsed_output, llm_calls,
                 finals, response>>

NextTool == ExecuteTool

SpecTool == InitTool /\ [][NextTool]_vars

-----------------------------------------------------------------------------
(* Vocabulary of the properties.                                           *)

StepOf(parsed) == PyGet(parsed, "step", Null)

\* A step of the loop that made a model round-trip
RoundTrip == pc = "AwaitingModel" /\ llm_calls' = llm_calls + 1

\* run_interaction is over: it returned or an exception left it
Over == pc \in {"Done", "Crashed"}

LastMessage == messages[Len(messages)]

\* step = action carrying both keys, function and input
HasFunctionAndInput(parsed) ==
  /\ StepOf(parsed) = Str("action")
  /\ "function" \in DOMAIN parsed
  /\ "input" \in DOMAIN parsed

IsMissingParameter(txt) ==
  /\ Len(txt) >= 4
  /\ StartsWithErrorColon(txt)
  /\ txt[3] = " Missing required parameter '"

\* "Error executing tool '<name>': <cause>"
IsErrorExecuting(txt, function_name) ==
  /\ Len(txt) > 4
  /\ SubSeq(txt, 1, 4) = <<"Error", " executing tool '", Fmt(function_name), "': ">>

RegisteredCall ==
  /\ call.function_name.t = "str"
  /\ call.function_name.s \in ToolNames

\* The response has content whose JSON object decodes
Decodable(resp) == resp.kind = "ok" /\ resp.shape \in {"clean", "prose", "list"}

\* step = action lacking the key function or the key input
LacksActionKey(payload) ==
  /\ StepOf(payload) = Str("action")
  /\ ("function" \notin DOMAIN payload \/ "input" \notin DOMAIN payload)

\* The response is one the codec rejects: no JSON object in it, JSON that
\* does not decode, an object without step, an action lacking a key
ParseFails(resp) ==
  /\ resp.kind = "ok"
  /\ \/ resp.shape \in {"nojson", "badjson"}
     \/ /\ Decodable(resp)
        /\ ("step" \notin DOMAIN resp.payload \/ LacksActionKey(resp.payload))

\* The response is an action step without a usable function and input: a
\* key absent, function empty or null, input null
MalformedAction(resp) ==
  /\ Decodable(resp)
  /\ StepOf(resp.payload) = Str("action")
  /\ \/ LacksActionKey(resp.payload)
     \/ PyGet(resp.payload, "function", Null) \in {Null, Str("")}
     \/ PyGet(resp.payload, "input", Null) = Null

\* The message is an assistant message carrying an observe step whose
\* content begins with "Error:"
IsCorrectiveObserve(msg) ==
  /\ msg.role = "assistant"
  /\ msg.content.shape = "clean"
  /\ StepOf(msg.content.payload) = Str("observe")
  /\ "content" \in DOMAIN msg.content.payload
  /\ msg.content.payload.content.t = "text"
  /\ StartsWithErrorColon(msg.content.payload.content.toks)

Registered(c) == c.function_name.t = "str" /\ c.function_name.s \in ToolNames

\* The call names a tool that is not registered
UnknownTool(c) == c.function_name.t = "str" /\ c.function_name.s \notin ToolNames

\* The call's input mapping lacks a required parameter of the tool
OmitsRequired(c) ==
  /\ Registered(c)
  /\ c.function_input.t = "obj"
  /\ Range(AVAILABLE_TOOLS[c.function_name.s].required)
       \ DOMAIN c.function_input.m # {}

\* The call's input mapping gives a non-string to a string parameter
NonStringParameter(c) ==
  /\ Registered(c)
  /\ c.function_input.t = "obj"
  /\ \E pr \in Range(AVAILABLE_TOOLS[c.function_name.s].properties) :
        /\ pr.type = "string"
        /\ pr.name \in DOMAIN c.function_input.m
        /\ ~IsStr(c.function_input.m[pr.name])

\* Every response of the interaction so far was a plan step: the history
\* after the user message holds the raw plan responses and, at most, the
\* timeout notice
OnlyPlanSteps ==
  /\ Len(messages) > 2
  /\ \A i \in 3..Len(messages) :
        \/ StepOf(messages[i].content.payload) = Str("plan")
        \/ messages[i] = OutputMessage(TimeoutText)

\* The call ended in an error: the tool was not invoked, the tool raised,
\* or the text that came back reports an error
ErrorOutcome(c) ==
  \/ c.result.escaped
  \/ c.result.invoked = 0
  \/ c.result.fault
  \/ StartsWithError(c.result.output)

\* The call asks delete_directory for an existing directory that is the
\* root, the working directory, its parent or the home directory
DeletesProtected(c) ==
  /\ c.function_name = Str("delete_directory")
  /\ c.function_input.t = "obj"
  /\ "directory" \in DOMAIN c.function_input.m
  /\ c.function_input.m["directory"].t = "str"
  /\ IsDir(c.function_input.m["directory"].s)
  /\ AbsPath(c.function_input.m["directory"].s)
       \in {"/", Cwd, ParentDir, HomeDir}

\* The response has content, so that _call_llm parses it
Parsed(resp) == resp.kind = "ok" /\ resp.shape # "empty"

\* The names of the tool's parameters declared string that the input
\* mapping carries with a value that is no string
NonStringNames(c) ==
  {pr.name : pr \in
     {q \in Range(AVAILABLE_TOOLS[c.function_name.s].properties) :
        /\ q.type = "string"
        /\ q.name \in DOMAIN c.function_input.m
        /\ ~IsStr(c.function_input.m[q.name])}}

\* "Error: Invalid type for parameter '<name>'. Expected string, got <type>."
IsInvalidType(txt) ==
  /\ Len(txt) >= 4
  /\ StartsWithErrorColon(txt)
  /\ txt[3] = " Invalid type for parameter '"

\* The round-trip itself failed: APIError or another exception
TransportFails(resp) == resp.kind \in {"api_error", "exception"}

\* The message is the observe message _call_llm appends for a failed call
IsTransportObserve(msg) ==
  /\ IsCorrectiveObserve(msg)
  /\ msg.content.payload.content.toks[3]
       \in {" API Error encountered: ", " An unexpected issue occurred: "}

\* Every round-trip of the interaction so far failed
OnlyTransportFailures ==
  /\ Len(messages) > 2
  /\ \A i \in 3..Len(messages) : IsTransportObserve(messages[i])

\* The response decodes to an object whose step is none of the four kinds
UnknownStep(resp) ==
  /\ Decodable(resp)
  /\ "step" \in DOMAIN resp.payload
  /\ resp.payload["step"]
       \notin {Str("plan"), Str("action"), Str("observe"), Str("output")}

\* The response decodes to an observe step that has no content key
ObserveWithoutContent(resp) ==
  /\ Decodable(resp)
  /\ StepOf(resp.payload) = Str("observe")
  /\ "content" \notin DOMAIN resp.payload

\* The response decodes to an action step that has a function and an input
WellFormedAction(resp) ==
  /\ Decodable(resp)
  /\ StepOf(resp.payload) = Str("action")
  /\ ~MalformedAction(resp)

\* The text ends with the truncation marker of _execute_tool
HasTruncationMarker(txt) ==
  Len(txt) >= 1 /\ txt[Len(txt)] = "\n... (tool output truncated)"

\* write_file asked with an input that has path and no content
WriteFilePathOnly(c) ==
  /\ c.made
  /\ c.function_name = Str("write_file")
  /\ c.function_input.t = "obj"
  /\ "path" \in DOMAIN c.function_input.m
  /\ "content" \notin DOMAIN c.function_input.m

-----------------------------------------------------------------------------
(* Properties.                                                             *)

\* C1: Termination.  Whatever the model answers, and with every
\* _execute_tool call returning, run_interaction ends in its terminal state
\* Done, having made at most max_iterations round-trips.
C1_Termination ==
  (Over /\ ~call.result.escaped) => (pc = "Done" /\ llm_calls <= max_iterations)

\* C2: every interaction ends with exactly one final message to the user
\* (the model's output, the timeout notice or the hard-failure notice) and
\* never by raising an exception.
C2_ExactlyOneFinalMessage ==
  Over => (pc = "Done" /\ Len(finals) = 1)

\* C3: at the ceiling the timeout message is appended unless the last
\* message already is an output: when the model's output step is the
\* response of the last allowed round-trip, whatever text surrounds its
\* JSON object, no timeout message follows it.
C3_NoTimeoutAfterOutput ==
  (Over /\ iteration_count = max_iterations
        /\ StepOf(parsed_output) = Str("output"))
    => ("timeout" \notin Range(finals)
        /\ LastMessage # OutputMessage(TimeoutText))

\* C4: At-most-one-dispatch.  In every iteration at most one tool
\* implementation is invoked, and one is invoked only when the step of that
\* iteration is an action with both function and input.
C4_AtMostOneDispatch ==
  /\ tool_calls <= 1
  /\ tool_calls = 1 => HasFunctionAndInput(parsed_output)

C4_Witness ==
  /\ pc = "AwaitingModel"
  /\ tool_calls = 1
  /\ call.made
  /\ HasFunctionAndInput(parsed_output)

\* C5: Fault containment.  When the invoked tool implementation raises,
\* _execute_tool returns "Error executing tool '<name>': <cause>", that text
\* is appended as an observe message, and the loop stays in AwaitingModel.
C5_FaultContainment ==
  [][(RoundTrip /\ call'.made /\ call'.result.fault)
       => /\ ~call'.result.escaped
          /\ StartsWithError(call'.result.output)
          /\ IsErrorExecuting(call'.result.output, call'.function_name)
          /\ messages'[Len(messages')] = ObserveMessage(call'.result.output)
          /\ Len(messages') = Len(messages) + 2
          /\ pc' = "AwaitingModel"]_vars

C5_Witness ==
  /\ pc = "AwaitingModel"
  /\ call.made
  /\ call.result.fault
  /\ tool_calls = 1
  /\ LastMessage = ObserveMessage(call.result.output)
  /\ IsErrorExecuting(call.result.output, call.function_name)

\* C6: no protocol error, validation error or tool fault aborts the
\* interaction: for every decoded step payload, whatever the JSON type of
\* an action's function or input, run_interaction returns normally.
C6_NeverAborts == pc # "Crashed"

\* C7: Reset isolation.  At the start of each run_interaction the history
\* is exactly the original system message followed by the new user message,
\* and the message at index 0 is always the one created at construction.
C7_ResetIsolation ==
  /\ messages[1] = SystemMessage
  /\ (pc = "AwaitingModel" /\ iteration_count = 0)
       => messages = <<SystemMessage, UserMessage(UserQuery(query))>>

\* The second query starts after a first interaction that appended messages
\* and ended.
C7_Witness ==
  /\ query = 2
  /\ pc = "AwaitingModel"
  /\ iteration_count = 0
  /\ messages = <<SystemMessage, UserMessage(UserQuery(2))>>

\* C8: when the model returns an observe step itself, with or without a
\* content field, the loop continues without dispatching a tool and the
\* next state is AwaitingModel, not Done.
C8_ObserveContinues ==
  [][(RoundTrip /\ StepOf(parsed_output') = Str("observe"))
       => (pc' = "AwaitingModel" /\ tool_calls' = 0)]_vars

\* C9: Validation completeness.  For every registered tool and every input
\* mapping, the dispatcher returns "Error: Missing required parameter ..."
\* if and only if a required parameter is not a key of the input; the
\* parameter it names is then a missing one.
C9_ValidationCompleteness ==
  (call.made /\ RegisteredCall /\ call.function_input.t = "obj")
    => LET R == Range(AVAILABLE_TOOLS[call.function_name.s].required)
           missing == R \ DOMAIN call.function_input.m
       IN /\ IsMissingParameter(call.result.output) <=> missing # {}
          /\ IsMissingParameter(call.result.output)
               => call.result.output[4] \in missing

C9_Witness ==
  /\ call.made
  /\ RegisteredCall
  /\ call.function_input.t = "obj"
  /\ DOMAIN call.function_input.m # {}
  /\ IsMissingParameter(call.result.output)

\* C10 as stated: for write_file with path and no content the dispatcher
\* returns "Error: 'path' and 'content' are required.", which is appended
\* as the observation, and the loop remains in AwaitingModel.
C10_WriteFileGuardText ==
  [][(RoundTrip /\ WriteFilePathOnly(call'))
       => /\ call'.result.output
               = <<"Error", ":", " 'path' and 'content' are required.">>
          /\ messages'[Len(messages')] = ObserveMessage(call'.result.output)
          /\ pc' = "AwaitingModel"]_vars

\* C10 amended: for write_file with path and no content the dispatcher
\* returns "Error: Missing required parameter 'content' for tool
\* 'write_file'." without invoking write_file; that text is appended as the
\* observation and the loop remains in AwaitingModel.
C10_WriteFileMissingContent ==
  [][(RoundTrip /\ WriteFilePathOnly(call'))
       => /\ call'.result.output
               = <<"Error", ":", " Missing required parameter '", "content",
                   "' for tool '", "write_file", "'.">>
          /\ call'.result.invoked = 0
          /\ messages'[Len(messages')] = ObserveMessage(call'.result.output)
          /\ pc' = "AwaitingModel"]_vars

C10_Witness ==
  /\ pc = "AwaitingModel"
  /\ WriteFilePathOnly(call)
  /\ call.result.output = MissingParameter("content", Str("write_file"))
  /\ LastMessage = ObserveMessage(call.result.output)

\* C11: every text _execute_tool returns, on every path (tool result, tool
\* fault, unknown tool, missing parameter, type mismatch), is no longer than
\* the maximum of 5000 characters plus the truncation marker, and a tool
\* result that exceeded the maximum comes back ending with the marker.
C11_BoundedResult ==
  (call.made /\ ~call.result.escaped)
    => /\ ~TooLong(call.result.output)
       /\ (call.result.invoked = 1 /\ ~call.result.fault
            /\ TooLong(ToolFn(call.function_name.s, call.function_input,
                              call.env).text))
            => HasTruncationMarker(call.result.output)

\* C12: when the response fails to parse (no JSON object, JSON that does
\* not decode, no step key, an action lacking function or input) no tool is
\* dispatched, the raw response is not appended to the history, exactly one
\* corrective observe message is appended, and the loop continues.
C12_ParseFailure ==
  [][(RoundTrip /\ ParseFails(response'))
       => /\ tool_calls' = 0
          /\ ~call'.made
          /\ Len(messages') = Len(messages) + 1
          /\ SubSeq(messages', 1, Len(messages)) = messages
          /\ IsCorrectiveObserve(messages'[Len(messages')])
          /\ messages'[Len(messages')].content
               # Content(response'.shape, response'.payload)
          /\ pc' = "AwaitingModel"]_vars

C12_Witness ==
  /\ pc = "AwaitingModel"
  /\ ParseFails(response)
  /\ Len(messages) = 3
  /\ IsCorrectiveObserve(LastMessage)
  /\ LastMessage.content.payload.content.toks[3]
       = " Invalid JSON response received: "

\* C13: an action step without both function and input (a key absent,
\* function empty or null, input null) is never dispatched: no tool is
\* invoked, a corrective observe message is appended, and the loop stays in
\* AwaitingModel.
C13_MalformedActionNotDispatched ==
  [][(RoundTrip /\ MalformedAction(response'))
       => /\ tool_calls' = 0
          /\ ~call'.made
          /\ Len(messages') > Len(messages)
          /\ IsCorrectiveObserve(messages'[Len(messages')])
          /\ pc' = "AwaitingModel"]_vars

C13_Witness ==
  /\ pc = "AwaitingModel"
  /\ MalformedAction(response)
  /\ ~LacksActionKey(response.payload)
  /\ ~call.made
  /\ LastMessage = ObserveMessage(MalformedActionText)

\* C14: validation precedes invocation.  When an action names an unknown
\* tool, omits a required parameter or gives a non-string to a string
\* parameter, the tool is not invoked, _execute_tool returns an "Error:"
\* text naming the violated contract, that text becomes the next observe
\* message, and the loop continues.
C14_ValidationBeforeInvocation ==
  [][(RoundTrip /\ call'.made
        /\ (UnknownTool(call') \/ OmitsRequired(call')
               \/ NonStringParameter(call')))
       => /\ call'.result.invoked = 0
          /\ ~call'.result.escaped
          /\ StartsWithErrorColon(call'.result.output)
          /\ call'.result.output[3]
               = (IF UnknownTool(call') THEN " Tool '"
                  ELSE IF OmitsRequired(call')
                    THEN " Missing required parameter '"
                  ELSE " Invalid type for parameter '")
          /\ messages'[Len(messages')] = ObserveMessage(call'.result.output)
          /\ pc' = "AwaitingModel"]_vars

C14_Witness ==
  /\ pc = "AwaitingModel"
  /\ call.made
  /\ NonStringParameter(call)
  /\ ~OmitsRequired(call)
  /\ call.result.invoked = 0
  /\ call.result.output[3] = " Invalid type for parameter '"
  /\ LastMessage = ObserveMessage(call.result.output)

\* C15: when the model answers with plan steps only, the loop makes exactly
\* max_iterations round-trips, dispatches no tool, and then appends one
\* timeout output message after the last round-trip.
C15_PlanOnlyTimesOut ==
  (Over /\ OnlyPlanSteps)
    => /\ pc = "Done"
       /\ llm_calls = max_iterations
       /\ tool_calls = 0
       /\ ~call.made
       /\ finals = <<"timeout">>
       /\ Len(messages) = 2 + max_iterations + 1
       /\ LastMessage = OutputMessage(TimeoutText)

\* C16: when the response holds one well-formed JSON object with step =
\* output, alone or with other text before and after it, the codec extracts
\* the object, the loop records its content as the final message and goes
\* to Done, with no tool dispatch.
C16_OutputEndsInteraction ==
  [][(RoundTrip /\ Decodable(response')
        /\ StepOf(response'.payload) = Str("output"))
       => /\ parsed_output' = response'.payload
          /\ pc' = "Done"
          /\ finals' = <<"model_output">>
          /\ messages'[Len(messages')]
               = Message("assistant",
                         Content(response'.shape, response'.payload))
          /\ tool_calls' = 0
          /\ ~call'.made]_vars

\* C17 as stated: the dispatcher performs exactly one tool implementation
\* invocation for each action step it is asked to execute.
C17_ExactlyOneInvocation ==
  call.made => call.result.invoked = 1

\* C17 amended: the dispatcher performs at most one tool implementation
\* invocation for each call: exactly one when the function names a
\* registered tool and the input is a mapping that has every required
\* parameter and a string for each string parameter it carries, and none
\* when the tool is unknown, a required parameter is missing or a string
\* parameter is given a non-string.
C17_AtMostOneInvocation ==
  call.made
    => /\ call.result.invoked <= 1
       /\ (Registered(call) /\ call.function_input.t = "obj"
            /\ ~OmitsRequired(call) /\ ~NonStringParameter(call))
            => call.result.invoked = 1
       /\ (UnknownTool(call) \/ OmitsRequired(call) \/ NonStringParameter(call))
            => call.result.invoked = 0

C17_Witness ==
  /\ call.made
  /\ call.function_name = Str("search_in_file")
  /\ call.function_input.t = "obj"
  /\ ~OmitsRequired(call)
  /\ ~NonStringParameter(call)
  /\ call.result.invoked = 1
  /\ tool_calls = 1

\* C18: every error outcome of a tool call (validation error, failure
\* inside the tool, caught tool fault) is returned as a text beginning with
\* the exact prefix "Error:" and never leaves _execute_tool as a raised
\* exception.
C18_ErrorPrefix ==
  (call.made /\ ErrorOutcome(call))
    => /\ ~call.result.escaped
       /\ StartsWithErrorColon(call.result.output)

\* C19: delete_directory refuses, with "Error: Safety preventions disallow
\* deleting '<directory>'." and without removing anything, every request
\* whose directory is the root, the working directory, its parent or the
\* home directory, however the path is spelled.
C19_RefusesProtected ==
  (call.made /\ DeletesProtected(call))
    => call.result.output
         = <<"Error", ":", " Safety preventions disallow deleting '",
             call.function_input.m["directory"].s, "'.">>

\* C20 as stated: parsing is pure: parsing a raw text yields the same step
\* or parse error each time, and parsing changes neither the conversation
\* history nor any other state.
C20_ParsingLeavesHistory ==
  [][(RoundTrip /\ Parsed(response'))
       => Decode(messages, response').messages = messages]_vars

\* C20 amended: the step or parse error that parsing yields depends on the
\* raw text alone, and parsing changes the state only by appending one
\* message to the history: the raw response when it parses, one corrective
\* observe message when it does not; the messages before it are unchanged.
C20_ParsingAppendsOneMessage ==
  [][(RoundTrip /\ Parsed(response'))
       => LET d == Decode(messages, response')
              n == Len(messages)
          IN /\ d.parsed = Decode(<<>>, response').parsed
             /\ parsed_output'
                  = (IF ParseFails(response')
                       THEN ObserveStep(<<"Error", ":",
                              " Invalid JSON response received from LLM.">>)
                     ELSE response'.payload)
             /\ Len(d.messages) = n + 1
             /\ Len(messages') >= n + 1
             /\ SubSeq(messages', 1, n + 1) = d.messages
             /\ SubSeq(messages', 1, n) = messages
             /\ IF ParseFails(response')
                  THEN IsCorrectiveObserve(messages'[n + 1])
                ELSE messages'[n + 1]
                       = Message("assistant",
                                 Content(response'.shape, response'.payload))]_vars

C20_Witness ==
  /\ pc = "AwaitingModel"
  /\ Parsed(response)
  /\ ~ParseFails(response)
  /\ StepOf(response.payload) = Str("plan")
  /\ parsed_output = response.payload
  /\ Len(messages) = 3
  /\ LastMessage = Message("assistant",
                           Content(response.shape, response.payload))

\* C21: the iteration counter is 0 at the start of every interaction, grows
\* by exactly one with each model round-trip, whatever the step or the
\* failure, and by nothing else, and never exceeds max_iterations; each
\* iteration makes exactly one round-trip.
C21_IterationCounter ==
  [][/\ query' # query => (iteration_count' = 0 /\ llm_calls' = 0)
     /\ llm_calls' = llm_calls + 1
          => /\ iteration_count' = iteration_count + 1
             /\ iteration_count' <= max_iterations
     /\ iteration_count' # iteration_count
          => (query' # query \/ llm_calls' = llm_calls + 1)
     /\ iteration_count' = llm_calls']_vars

C21_Witness ==
  /\ query = 2
  /\ iteration_count = max_iterations
  /\ llm_calls = max_iterations
  /\ response.kind = "api_error"

\* C22 as stated: for every known tool and every input mapping, a present
\* parameter declared string with a non-string value yields "Error: Invalid
\* type for parameter ..." and no tool invocation.
C22_TypeMismatchAlways ==
  (call.made /\ Registered(call) /\ call.function_input.t = "obj"
     /\ NonStringNames(call) # {})
    => /\ IsInvalidType(call.result.output)
       /\ call.result.invoked = 0

\* C22 amended: for every known tool and every input mapping that carries a
\* non-string value for a parameter declared string, the tool is not
\* invoked; the text returned is "Error: Invalid type for parameter ..."
\* naming such a parameter when every required parameter is present, and
\* "Error: Missing required parameter ..." otherwise.  A mapping with every
\* required parameter and strings for its declared parameters is accepted
\* whatever the values of its other keys.
C22_TypeMismatch ==
  (call.made /\ Registered(call) /\ call.function_input.t = "obj")
    => /\ NonStringNames(call) # {}
            => /\ call.result.invoked = 0
               /\ IF OmitsRequired(call)
                    THEN IsMissingParameter(call.result.output)
                  ELSE /\ IsInvalidType(call.result.output)
                       /\ call.result.output[4] \in NonStringNames(call)
                       /\ call.result.output[6]
                            = TypeName(call.function_input.m[call.result.output[4]])
       /\ (NonStringNames(call) = {} /\ ~OmitsRequired(call))
            => /\ call.result.invoked = 1
               /\ ~IsInvalidType(call.result.output)

C22_Witness ==
  /\ call.made
  /\ call.function_name = Str("search_in_file")
  /\ call.function_input.t = "obj"
  /\ NonStringNames(call) = {"query"}
  /\ ~OmitsRequired(call)
  /\ call.result.invoked = 0
  /\ call.result.output = InvalidType("query", Num(5))

\* C23: when the round-trip to the model fails (APIError or any other
\* exception) one error observe message is appended, the iteration is
\* counted and the loop goes on; when every round-trip fails the interaction
\* ends after max_iterations round-trips with the timeout output message.
C23_TransportFailure ==
  [][/\ (RoundTrip /\ TransportFails(response'))
          => /\ Len(messages') = Len(messages) + 1
             /\ SubSeq(messages', 1, Len(messages)) = messages
             /\ IsTransportObserve(messages'[Len(messages')])
             /\ iteration_count' = iteration_count + 1
             /\ tool_calls' = 0
             /\ pc' = "AwaitingModel"
     /\ (pc = "AwaitingModel" /\ OnlyTransportFailures
          /\ llm_calls' = llm_calls /\ pc' # pc)
          => /\ pc' = "Done"
             /\ llm_calls = max_iterations
             /\ Len(messages) = 2 + max_iterations
             /\ messages' = Append(messages, OutputMessage(TimeoutText))
             /\ finals' = <<"timeout">>]_vars

C23_Witness ==
  /\ pc = "Done"
  /\ TransportFails(response)
  /\ llm_calls = max_iterations
  /\ Len(messages) = 2 + max_iterations + 1
  /\ \A i \in 3..(Len(messages) - 1) : IsTransportObserve(messages[i])
  /\ LastMessage = OutputMessage(TimeoutText)
  /\ finals = <<"timeout">>

\* C24: within one interaction the history is append-only: every step of
\* the loop leaves the messages already appended unchanged and in the same
\* order, and each round-trip appends its record directly after the history
\* that was passed to the model.
C24_AppendOnly ==
  [][query' = query
       => /\ Len(messages') >= Len(messages)
          /\ SubSeq(messages', 1, Len(messages)) = messages
          /\ RoundTrip => Len(messages') > Len(messages)]_vars

C24_Witness ==
  /\ pc = "Done"
  /\ Len(messages) >= 5
  /\ call.made
  /\ finals = <<"timeout">>
  /\ LastMessage = OutputMessage(TimeoutText)

\* C25: when the model returns a decodable step whose step value is none
\* of plan, action, observe, output, no tool is dispatched, one corrective
\* observe message naming the allowed steps is appended after the raw
\* response, and the loop stays in AwaitingModel.
C25_UnknownStep ==
  [][(RoundTrip /\ UnknownStep(response'))
       => /\ tool_calls' = 0
          /\ ~call'.made
          /\ messages'
               = messages
                   \o <<Message("assistant",
                                Content(response'.shape, response'.payload)),
                        ObserveMessage(UnknownStepText(response'.payload["step"]))>>
          /\ IsCorrectiveObserve(messages'[Len(messages')])
          /\ pc' = "AwaitingModel"]_vars

C25_Witness ==
  /\ pc = "AwaitingModel"
  /\ UnknownStep(response)
  /\ response.payload["step"] = Str("think")
  /\ LastMessage = ObserveMessage(UnknownStepText(Str("think")))
  /\ ~call.made

\* C26: each iteration appends at most 2 messages and the timeout at most
\* 1, so the history never holds more than 2 + 2 * max_iterations + 1
\* messages, and it holds at least 2 during an interaction.
C26_HistoryLength ==
  /\ Len(messages) <= 2 + 2 * iteration_count + (IF Over THEN 1 ELSE 0)
  /\ Len(messages) <= 2 + 2 * max_iterations + 1
  /\ pc # "Idle" => Len(messages) >= 2

C26_Witness ==
  /\ Over
  /\ iteration_count = max_iterations
  /\ Len(messages) = 2 + 2 * max_iterations + 1

C28_ActionThenObservation ==
  [][RoundTrip
       => /\ WellFormedAction(response')
               => /\ call'.made
                  /\ messages'
                       = messages
                           \o <<Message("assistant",
                                        Content(response'.shape, response'.payload)),
                                ObserveMessage(call'.result.output)>>
                  /\ pc' = "AwaitingModel"
          /\ \A i \in 3..Len(messages') : messages'[i].role = "assistant"]_vars

====
